---------------------------- MODULE Spec2Model ----------------------------
(***************************************************************************)
(* A model of safe_rewrite.py: the rule-based fact extractor, the coverage *)
(* scorer, the pass test and the retry-with-feedback loop of safe_rewrite; *)
(* and of the history store of spreadsheet_logger.py.                      *)
(*                                                                         *)
(* A text is a sequence of characters; a character is a one-element        *)
(* string.  Characters outside ASCII are written by name: "NEN", "GATSU"   *)
(* and "NICHI" are the ideographs U+5E74, U+6708 and U+65E5 (year, month,  *)
(* day), "KA" and "TA" are two katakana letters.                           *)
(*                                                                         *)
(* A float that the code computes as a quotient of two integers is the     *)
(* exact rational [num, den].  Every quotient of the code has a            *)
(* denominator of at most 100 (a coverage) or the length of the original   *)
(* (a length ratio) and is compared with a threshold of one decimal, so    *)
(* the correctly rounded double compares as the rational does.             *)
(***************************************************************************)
EXTENDS Integers, Sequences, FiniteSets, TLC

\* ------------------------------------------------------------ characters

Digits == {"0", "1", "2", "3", "4", "5", "6", "7", "8", "9"}

Letters ==
    {"a", "b", "c", "d", "e", "f", "g", "h", "i", "j", "k", "l", "m",
     "n", "o", "p", "q", "r", "s", "t", "u", "v", "w", "x", "y", "z",
     "A", "B", "C", "D", "E", "F", "G", "H", "I", "J", "K", "L", "M",
     "N", "O", "P", "Q", "R", "S", "T", "U", "V", "W", "X", "Y", "Z"}

\* \s of the regular expressions
Whitespace == {" ", "\t", "\n"}

\* the katakana class of NE_RE
Katakana == {"KA", "TA"}

\* the ideograph class of NE_RE
Kanji == {"NEN", "GATSU", "NICHI"}

Punctuation == {":", "/", ".", ",", "-", "+", "%", "_", ")", "(", "<", ">", "\"", "'"}

Alphabet == Digits \cup Letters \cup Whitespace \cup Katakana \cup Kanji \cup Punctuation

\* [^\s)<>"'] of URL_RE
UrlChars == Alphabet \ (Whitespace \cup {")", "<", ">", "\"", "'"})

\* [A-Za-z0-9\-_/] of NE_RE
WordChars == Letters \cup Digits \cup {"-", "_", "/"}

\* [/.-] of DATE_RE
DateSeps == {"/", ".", "-"}

\* ------------------------------------------------------------- sequences

\* The element of a one-element set.  The({e(v) : v \in {x}}) is e(x) with x
\* computed once, however often e uses it.
The(S) == CHOOSE x \in S : TRUE

MinInt(a, b) == IF a <= b THEN a ELSE b

MaxInt(a, b) == IF a >= b THEN a ELSE b

\* t[i], or "" past the end of t
CharAt(t, i) == IF i >= 1 /\ i <= Len(t) THEN t[i] ELSE ""

\* whether p occurs in t at position i
HasPrefix(t, i, p) ==
    /\ i + Len(p) - 1 <= Len(t)
    /\ \A k \in 1..Len(p) : t[i + k - 1] = p[k]

\* the position after the longest run of characters of S that starts at i
RunEnd(t, i, S) ==
    LET R[k \in 1..(Len(t) + 1)] ==
            IF k > Len(t) \/ t[k] \notin S THEN k ELSE R[k + 1]
    IN  IF i > Len(t) THEN i ELSE R[i]

\* x in text, for two strings (the empty string is in every text)
Contains(x, text) ==
    \E k \in 1..(Len(text) - Len(x) + 1) : SubSeq(text, k, k + Len(x) - 1) = x

\* (mutant) the cut dropped
TakeAll(s, n) == s

\* text[:n]
Take(s, n) == SubSeq(s, 1, MinInt(n, Len(s)))

RECURSIVE DedupRange(_, _, _)
\* the distinct items of s[lo..hi] in first-seen order: those of the first
\* half, then those of the second half that the first half does not have
DedupRange(s, lo, hi) ==
    IF hi < lo THEN <<>>
    ELSE IF lo = hi THEN <<s[lo]>>
    ELSE The({l \o SelectSeq(DedupRange(s, ((lo + hi) \div 2) + 1, hi),
                             LAMBDA x : \A j \in 1..Len(l) : l[j] # x)
              : l \in {DedupRange(s, lo, (lo + hi) \div 2)}})

\* list(dict.fromkeys(s)): the distinct items of s in first-seen order
Dedup(s) == DedupRange(s, 1, Len(s))

\* ---------------------------------------------------- regular expressions
\* Each XEnd(t, i) is the position after the match of the expression that
\* starts at position i of t, or 0 when it does not match there.

\* URL_RE = https?://[^\s)<>"']+
UrlEnd(t, i) ==
    IF ~HasPrefix(t, i, <<"h", "t", "t", "p">>) THEN 0
    ELSE LET j == IF CharAt(t, i + 4) = "s" THEN i + 5 ELSE i + 4
             e == RunEnd(t, j + 3, UrlChars)
         IN  IF HasPrefix(t, j, <<":", "/", "/">>) /\ e > j + 3 THEN e ELSE 0

\* NUM_RE = [-+]?\d+(?:[.,]\d+)?%?
NumEnd(t, i) ==
    LET d  == IF CharAt(t, i) \in {"-", "+"} THEN i + 1 ELSE i
        e1 == RunEnd(t, d, Digits)
        f  == RunEnd(t, e1 + 1, Digits)
        e2 == IF CharAt(t, e1) \in {".", ","} /\ f > e1 + 1 THEN f ELSE e1
        e3 == IF CharAt(t, e2) = "%" THEN e2 + 1 ELSE e2
    IN  IF e1 = d THEN 0 ELSE e3

\* \d{1,2} at position p: the position after it, or 0
OneOrTwoDigits(t, p) ==
    LET e == MinInt(RunEnd(t, p, Digits), p + 2)
    IN  IF e > p THEN e ELSE 0

\* DATE_RE = (20\d{2}[/.-]\d{1,2}[/.-]\d{1,2}|20\d{2}<NEN>\d{1,2}<GATSU>\d{1,2}<NICHI>)
DateEnd(t, i) ==
    LET p  == i + 4
        m  == OneOrTwoDigits(t, p + 1)
        d  == OneOrTwoDigits(t, m + 1)
    IN  IF ~(/\ HasPrefix(t, i, <<"2", "0">>)
             /\ CharAt(t, i + 2) \in Digits
             /\ CharAt(t, i + 3) \in Digits) THEN 0
        ELSE IF CharAt(t, p) \in DateSeps
             THEN IF m # 0 /\ CharAt(t, m) \in DateSeps /\ d # 0 THEN d ELSE 0
        ELSE IF CharAt(t, p) = "NEN"
             THEN IF m # 0 /\ CharAt(t, m) = "GATSU" /\ d # 0 /\ CharAt(t, d) = "NICHI"
                  THEN d + 1 ELSE 0
        ELSE 0

\* NE_RE = [A-Za-z][A-Za-z0-9\-_/]+|[katakana]{2,}|[ideographs]{2,}
NeEnd(t, i) ==
    LET w  == RunEnd(t, i + 1, WordChars)
        k  == RunEnd(t, i, Katakana)
        g  == RunEnd(t, i, Kanji)
    IN  IF CharAt(t, i) \in Letters THEN (IF w > i + 1 THEN w ELSE 0)
        ELSE IF k >= i + 2 THEN k
        ELSE IF g >= i + 2 THEN g
        ELSE 0

MatchEnd(re, t, i) ==
    CASE re = "URL_RE"  -> UrlEnd(t, i)
      [] re = "NUM_RE"  -> NumEnd(t, i)
      [] re = "DATE_RE" -> DateEnd(t, i)
      [] re = "NE_RE"   -> NeEnd(t, i)

RECURSIVE ScanFrom(_, _, _, _, _)
\* The scan over the positions lo..hi-1 of t, entered at position a >= lo:
\* the matches it finds there, leftmost first, and the position at which it
\* goes on (past hi-1).  At a position with a match the scan takes it and
\* resumes after it; at one without it moves on by one.  m[k] is the end of
\* the match that starts at k, or 0.
ScanFrom(t, m, a, lo, hi) ==
    IF a >= hi THEN [found |-> <<>>, at |-> a]
    ELSE IF hi - lo = 1
         THEN IF m[lo] = 0 THEN [found |-> <<>>, at |-> lo + 1]
              ELSE [found |-> <<SubSeq(t, lo, m[lo] - 1)>>, at |-> m[lo]]
    ELSE The({The({[found |-> l.found \o r.found, at |-> r.at]
                   : r \in {ScanFrom(t, m, l.at, (lo + hi) \div 2, hi)}})
              : l \in {ScanFrom(t, m, a, lo, (lo + hi) \div 2)}})

\* re.findall(t): the non-overlapping matches, leftmost first, the scan
\* resuming after each match
FindAll(re, t) ==
    The({ScanFrom(t, m, 1, 1, Len(t) + 1).found
         : m \in {[k \in 1..Len(t) |-> MatchEnd(re, t, k)]}})


\* ------------------------------------------------------------ extraction

UrlCap == 50

NumCap == 100

DateCap == 50

EntCap == 100

\* extract_key_facts: per category, the distinct matches in first-seen order,
\* cut to the category's cap
extract_key_facts(text) ==
    The({[urls     |-> Take(Dedup(urls), UrlCap),
          numbers  |-> Take(Dedup(nums), NumCap),
          dates    |-> Take(Dedup(dates), DateCap),
          entities |-> Take(Dedup(nes), EntCap)]
         : <<urls, nums, dates, nes>> \in
               {<<FindAll("URL_RE", t), FindAll("NUM_RE", t),
                  FindAll("DATE_RE", t), FindAll("NE_RE", t)>> : t \in {text}}})

\* --------------------------------------------------------------- scoring

Rat(n, d) == [num |-> n, den |-> d]

RatGE(a, b) == a.num * b.den >= b.num * a.den

RatLT(a, b) == a.num * b.den < b.num * a.den

RatEq(a, b) == a.num * b.den = b.num * a.den

DenFloor == 5

DenCap == 100

\* (mutant) the guard against empty items dropped: x in rewritten
KeptItemsAnyItem(baseline, rewritten) ==
    {k \in 1..Len(baseline) : Contains(baseline[k], rewritten)}

\* the items of baseline the code counts as kept: x and x in rewritten
KeptItems(baseline, rewritten) ==
    {k \in 1..Len(baseline) : baseline[k] # <<>> /\ Contains(baseline[k], rewritten)}

\* (mutant) the floor of 5 dropped: min(len(baseline), 100)
DenominatorNoFloor(baseline) == MinInt(Len(baseline), DenCap)

\* (mutant) a floor of 1, as for the length ratio: max(1, min(len(baseline), 100))
DenominatorFloorOfOne(baseline) == MaxInt(1, MinInt(Len(baseline), DenCap))

\* max(5, min(len(baseline), 100))
Denominator(baseline) == MaxInt(DenFloor, MinInt(Len(baseline), DenCap))

coverage_score(baseline, rewritten) ==
    IF baseline = <<>> THEN Rat(1, 1)
    ELSE Rat(Cardinality(KeptItems(baseline, rewritten)), Denominator(baseline))

\* len(re.sub(r"\s+", "", text))
NonSpaceLen(text) == Len(SelectSeq(text, LAMBDA c : c \notin Whitespace))

validate_rewrite(original, rewritten_html) ==
    The({[url_keep     |-> coverage_score(base.urls, rewritten_html),
          num_keep     |-> coverage_score(base.numbers, rewritten_html),
          date_keep    |-> coverage_score(base.dates, rewritten_html),
          ent_keep     |-> coverage_score(base.entities, rewritten_html),
          length_ratio |-> Rat(NonSpaceLen(rewritten_html),
                               MaxInt(1, NonSpaceLen(original)))]
         : base \in {extract_key_facts(original)}})

\* (mutant) the length condition dropped
is_passWithoutLength(scores, url_min, num_min, date_min, ent_min, len_min) ==
    /\ RatGE(scores.url_keep, url_min)
    /\ RatGE(scores.num_keep, num_min)
    /\ RatGE(scores.date_keep, date_min)
    /\ RatGE(scores.ent_keep, ent_min)

is_pass(scores, url_min, num_min, date_min, ent_min, len_min) ==
    /\ RatGE(scores.url_keep, url_min)
    /\ RatGE(scores.num_keep, num_min)
    /\ RatGE(scores.date_keep, date_min)
    /\ RatGE(scores.ent_keep, ent_min)
    /\ RatGE(scores.length_ratio, len_min)

\* is_pass(scores) with the default thresholds 0.8, 0.7, 0.7, 0.6, 0.6
IsPassDefault(scores) ==
    is_pass(scores, Rat(8, 10), Rat(7, 10), Rat(7, 10), Rat(6, 10), Rat(6, 10))

\* --------------------------------------------------------------- prompts
\* A prompt is the sequence of the parts its template substitutes, after the
\* name of the template.

MaxPromptChars == 18000

DefaultStyle == <<"d", "e", "f", "a", "u", "l", "t">>

\* style_guidelines or the default style; None is <<>>, which is falsy too
StyleOrDefault(style_guidelines) ==
    IF style_guidelines = <<>> THEN DefaultStyle ELSE style_guidelines

prompt_extract_must_keep(original_text) ==
    <<"EXTRACT_MUST_KEEP", Take(original_text, MaxPromptChars)>>

prompt_rewrite_with_constraints(keyword, original_text, ai_suggestions, must_keep_json, style_guidelines) ==
    <<"REWRITE_WITH_CONSTRAINTS", keyword, must_keep_json, ai_suggestions,
      Take(original_text, MaxPromptChars), StyleOrDefault(style_guidelines)>>

\* ---------------------------------------------------------------- inputs

\* the largest max_retries a session is started with
MaxRetriesBound == 2

SleepSecDefault == 1

Keyword == <<"k", "w">>

Suggestions == <<"s", "u", "g">>

\* "ab cd ef": three entities and nothing else
TextThreeEntities == <<"a", "b", " ", "c", "d", " ", "e", "f">>

\* "ab": one of the three entities
TextOneEntity == <<"a", "b">>

\* "x 1": one number and nothing else
TextOneNumber == <<"x", " ", "1">>

Originals == {TextThreeEntities, TextOneNumber, <<>>}

\* what the generation service answers to a rewrite prompt: a response whose
\* text is a string, or one with no text (None)
NoText == [has_text |-> FALSE, text |-> <<>>]

WithText(t) == [has_text |-> TRUE, text |-> t]

Responses == {NoText, WithText(TextThreeEntities), WithText(TextOneEntity)}

\* what it answers to the fact-extraction prompt: a JSON object or anything else
MustKeepResponses == {WithText(<<"{", "}">>), WithText(<<"o", "o", "p", "s">>)}

\* resp.text or ""
TextOrEmpty(resp) == IF resp.has_text /\ resp.text # <<>> THEN resp.text ELSE <<>>

\* ----------------------------------------------------------------- state

\* sess: the safe_rewrite invocations, each with its own locals
\*   pc               start | generate | sleep | resubmit | returned | raised
\*   keep_resp        the response of the fact-extraction call
\*   result           <<>>, or the triple the invocation returned
\*   trace            the calls the invocation made, in order
\*   candidates       the texts it scored, each with its score vector
\* call: one application of a function, its arguments and its result
\* sheet: the rows of the history sheet of the spreadsheet, the header first
VARIABLES sess, call, sheet

vars == <<sess, call, sheet>>

\* no history sheet is in use
NoSheet == <<>>

NoCall == [fn |-> "none"]

NewSession(max_retries, original) ==
    [pc               |-> "start",
     keyword          |-> Keyword,
     original         |-> original,
     ai_suggestions   |-> Suggestions,
     style_guidelines |-> <<>>,
     max_retries      |-> max_retries,
     sleep_sec        |-> SleepSecDefault,
     keep_resp        |-> NoText,
     must_keep_json   |-> <<>>,
     attempt          |-> 0,
     prompt           |-> <<>>,
     retry_prompt     |-> <<>>,
     rewritten        |-> <<>>,
     last_scores      |-> <<>>,
     result           |-> <<>>,
     trace            |-> <<>>,
     candidates       |-> <<>>]

\* a call of gemini_model.generate_content: kind says which call site made it
GenerateEvent(kind, prompt, ok) ==
    [op |-> "generate_content", kind |-> kind, arg |-> prompt, ok |-> ok]

SleepEvent(secs) == [op |-> "sleep", kind |-> "pause", arg |-> secs, ok |-> TRUE]

ReturnEvent == [op |-> "return", kind |-> "return", arg |-> <<>>, ok |-> TRUE]

\* (mutant) a baseline extracted once and kept: no extraction after the first
ValidateCallsCached(s) ==
    IF \E k \in 1..Len(s.trace) : s.trace[k].op = "extract_key_facts" THEN <<>>
    ELSE <<[op |-> "extract_key_facts", kind |-> "baseline", arg |-> s.original, ok |-> TRUE]>>

\* the calls one validate_rewrite(original, ...) makes besides the scoring:
\* it extracts the baseline of the original
ValidateCalls(s) ==
    <<[op |-> "extract_key_facts", kind |-> "baseline", arg |-> s.original, ok |-> TRUE]>>

\* ----------------------------------------------------------- safe_rewrite

\* (mutant) the scores of the first candidate returned with the last text
ReturnFirstScores(s) ==
    [s EXCEPT !.pc = "returned",
              !.result = <<s.rewritten, s.candidates[1].scores, s.must_keep_json>>,
              !.trace = @ \o <<[op |-> "return", kind |-> "return", arg |-> <<>>, ok |-> TRUE]>>]

\* return rewritten, last_scores, must_keep_json
Return(s) ==
    [s EXCEPT !.pc = "returned",
              !.result = <<s.rewritten, s.last_scores, s.must_keep_json>>,
              !.trace = @ \o <<ReturnEvent>>]

\* (mutant) one outer attempt too many: range(max_retries + 2)
EnterLoopOneMore(s) ==
    IF s.attempt <= s.max_retries + 1 THEN [s EXCEPT !.pc = "generate"] ELSE Return(s)

\* (mutant) exhaustion raises instead of returning the last candidate
EnterLoopRaising(s) ==
    IF s.attempt <= s.max_retries THEN [s EXCEPT !.pc = "generate"]
    ELSE [s EXCEPT !.pc = "raised"]

\* the head of "for attempt in range(max_retries + 1)": the next outer attempt,
\* or past the loop the final return
EnterLoop(s) ==
    IF s.attempt <= s.max_retries THEN [s EXCEPT !.pc = "generate"] ELSE Return(s)

\* (mutant) a text that is no JSON object replaced by the empty object
ExtractStepRepairing(s, resp) ==
    EnterLoop([s EXCEPT
        !.keep_resp = resp,
        !.must_keep_json = IF CharAt(resp.text, 1) = "{" THEN resp.text ELSE <<"{", "}">>,
        !.attempt = 0,
        !.trace = @ \o <<GenerateEvent("extract", prompt_extract_must_keep(s.original), TRUE)>>])

\* keep_resp = generate_content(prompt_extract_must_keep(original));
\* must_keep_json = keep_resp.text
ExtractStep(s, resp) ==
    EnterLoop([s EXCEPT
        !.keep_resp = resp,
        !.must_keep_json = resp.text,
        !.attempt = 0,
        !.trace = @ \o <<GenerateEvent("extract", prompt_extract_must_keep(s.original), TRUE)>>])

\* (mutant) the candidate scored against the facts of the must-keep text
ScoreStepAgainstMustKeep(s, kind, p, resp) ==
    The({[s EXCEPT
             !.rewritten = rewritten,
             !.last_scores = scores,
             !.trace = @ \o <<GenerateEvent(kind, p, TRUE)>> \o ValidateCalls(s),
             !.candidates = Append(@, [text |-> rewritten, scores |-> scores])]
         : <<rewritten, scores>> \in
               {<<r, validate_rewrite(s.must_keep_json, r)>> : r \in {TextOrEmpty(resp)}}})

\* resp = generate_content(p); rewritten = resp.text or "";
\* last_scores = validate_rewrite(original, rewritten)
ScoreStep(s, kind, p, resp) ==
    The({[s EXCEPT
             !.rewritten = rewritten,
             !.last_scores = scores,
             !.trace = @ \o <<GenerateEvent(kind, p, TRUE)>> \o ValidateCalls(s),
             !.candidates = Append(@, [text |-> rewritten, scores |-> scores])]
         : <<rewritten, scores>> \in
               {<<r, validate_rewrite(s.original, r)>> : r \in {TextOrEmpty(resp)}}})

CategoryOrder == <<"url_keep", "num_keep", "date_keep", "ent_keep", "length_ratio">>

\* (mutant) the exclusion of length_ratio dropped
WeakCategoriesWithLength(scores) ==
    SelectSeq(CategoryOrder, LAMBDA k : RatLT(scores[k], Rat(8, 10)))

\* [k for k, v in last_scores.items() if k != "length_ratio" and v < 0.8]
WeakCategories(scores) ==
    SelectSeq(CategoryOrder,
              LAMBDA k : k # "length_ratio" /\ RatLT(scores[k], Rat(8, 10)))

\* int(100 * max(0.6, length_ratio))
LengthPercent(scores) ==
    IF RatGE(Rat(6, 10), scores.length_ratio) THEN 60
    ELSE (100 * scores.length_ratio.num) \div scores.length_ratio.den

Feedback(scores) ==
    [weak |-> WeakCategories(scores), percent |-> LengthPercent(scores)]

\* (mutant) the first try's pass test dropped: feedback is always sent
FirstTryStepNoPassTest(s, resp) ==
    The({[t EXCEPT
             !.retry_prompt = t.prompt \o <<"FEEDBACK", Feedback(t.last_scores)>>,
             !.pc = "sleep"]
         : t \in {ScoreStep([s EXCEPT !.prompt = p], "first_try", p, resp)
                  : p \in {prompt_rewrite_with_constraints(
                               s.keyword, s.original, s.ai_suggestions,
                               s.must_keep_json, s.style_guidelines)}}})

\* (mutant) the next outer attempt starts from the last feedback prompt
FirstTryStepCarryingFeedback(s, resp) ==
    The({IF IsPassDefault(t.last_scores) THEN Return(t)
         ELSE [t EXCEPT
                  !.retry_prompt = t.prompt \o <<"FEEDBACK", Feedback(t.last_scores)>>,
                  !.pc = "sleep"]
         : t \in {ScoreStep([s EXCEPT !.prompt = p], "first_try", p, resp)
                  : p \in {IF Len(s.retry_prompt) > 0 THEN s.retry_prompt
                           ELSE prompt_rewrite_with_constraints(
                                    s.keyword, s.original, s.ai_suggestions,
                                    s.must_keep_json, s.style_guidelines)}}})

\* the first try of an outer attempt, to the return or to the pause
FirstTryStep(s, resp) ==
    The({IF IsPassDefault(t.last_scores) THEN Return(t)
         ELSE [t EXCEPT
                  !.retry_prompt = t.prompt \o <<"FEEDBACK", Feedback(t.last_scores)>>,
                  !.pc = "sleep"]
         : t \in {ScoreStep([s EXCEPT !.prompt = p], "first_try", p, resp)
                  : p \in {prompt_rewrite_with_constraints(
                               s.keyword, s.original, s.ai_suggestions,
                               s.must_keep_json, s.style_guidelines)}}})

\* (mutant) the pause dropped
SleepStepSkipped(s) == [s EXCEPT !.pc = "resubmit"]

\* time.sleep(sleep_sec)
SleepStep(s) ==
    [s EXCEPT !.pc = "resubmit", !.trace = @ \o <<SleepEvent(s.sleep_sec)>>]

\* the feedback resubmission, to the return or to the next outer attempt
ResubmitStep(s, resp) ==
    The({IF IsPassDefault(t.last_scores) THEN Return(t)
         ELSE EnterLoop([t EXCEPT !.attempt = @ + 1])
         : t \in {ScoreStep(s, "feedback", s.retry_prompt, resp)}})

\* (mutant) a failed call caught and the call site retried
RaiseStepRetried(s, kind, p) ==
    [s EXCEPT !.trace = @ \o <<[op |-> "generate_content", kind |-> kind,
                                arg |-> p, ok |-> FALSE]>>]

\* generate_content raises: nothing catches it
RaiseStep(s, kind, p) ==
    [s EXCEPT !.pc = "raised", !.trace = @ \o <<GenerateEvent(kind, p, FALSE)>>]

\* ---------------------------------------------------------------- actions

\* (mutant) the must-keep structure kept in a variable of the module, which
\* every invocation writes and reads
ExtractMustKeepShared(i) ==
    /\ sess[i].pc = "start"
    /\ \E resp \in MustKeepResponses :
          sess' = [j \in DOMAIN sess |->
                     IF j = i THEN ExtractStep(sess[i], resp)
                     ELSE [sess[j] EXCEPT !.must_keep_json = resp.text]]
    /\ UNCHANGED <<call, sheet>>

ExtractMustKeep(i) ==
    /\ sess[i].pc = "start"
    /\ \E resp \in MustKeepResponses :
          sess' = [sess EXCEPT ![i] = ExtractStep(sess[i], resp)]
    /\ UNCHANGED <<call, sheet>>

ExtractFails(i) ==
    /\ sess[i].pc = "start"
    /\ sess' = [sess EXCEPT ![i] =
                  RaiseStep(sess[i], "extract", prompt_extract_must_keep(sess[i].original))]
    /\ UNCHANGED <<call, sheet>>

FirstTry(i) ==
    /\ sess[i].pc = "generate"
    /\ \E resp \in Responses :
          sess' = [sess EXCEPT ![i] = FirstTryStep(sess[i], resp)]
    /\ UNCHANGED <<call, sheet>>

FirstTryFails(i) ==
    /\ sess[i].pc = "generate"
    /\ sess' = [sess EXCEPT ![i] =
                  RaiseStep(sess[i], "first_try",
                            prompt_rewrite_with_constraints(
                                sess[i].keyword, sess[i].original, sess[i].ai_suggestions,
                                sess[i].must_keep_json, sess[i].style_guidelines))]
    /\ UNCHANGED <<call, sheet>>

Sleep(i) ==
    /\ sess[i].pc = "sleep"
    /\ sess' = [sess EXCEPT ![i] = SleepStep(sess[i])]
    /\ UNCHANGED <<call, sheet>>

Resubmit(i) ==
    /\ sess[i].pc = "resubmit"
    /\ \E resp \in Responses :
          sess' = [sess EXCEPT ![i] = ResubmitStep(sess[i], resp)]
    /\ UNCHANGED <<call, sheet>>

ResubmitFails(i) ==
    /\ sess[i].pc = "resubmit"
    /\ sess' = [sess EXCEPT ![i] = RaiseStep(sess[i], "feedback", sess[i].retry_prompt)]
    /\ UNCHANGED <<call, sheet>>

Init ==
    /\ \E mr \in 0..MaxRetriesBound, o \in Originals :
          sess = [i \in {1} |-> NewSession(mr, o)]
    /\ call = NoCall
    /\ sheet = NoSheet

\* one invocation, alone
Next ==
    \/ ExtractMustKeep(1)
    \/ ExtractFails(1)
    \/ FirstTry(1)
    \/ FirstTryFails(1)
    \/ Sleep(1)
    \/ Resubmit(1)
    \/ ResubmitFails(1)

Spec == Init /\ [][Next]_vars

\* the code runs an invocation to its end: no step waits for ever
FairSpec == Init /\ [][Next]_vars /\ WF_vars(Next)

\* ------------------------------------------------ two invocations at once
\* Two invocations, each with its own arguments and its own responses of the
\* service, their steps interleaved in any order: the first on any original
\* with up to TwoRetriesBound retries, the second on the original with one
\* number and without retries.

\* the largest max_retries of the first invocation
TwoRetriesBound == 0

InitTwo ==
    /\ \E mr1 \in 0..TwoRetriesBound, o1 \in Originals :
          sess = [i \in {1, 2} |-> IF i = 1 THEN NewSession(mr1, o1)
                                            ELSE NewSession(0, TextOneNumber)]
    /\ call = NoCall
    /\ sheet = NoSheet

NextTwo ==
    \/ ExtractMustKeep(1)
    \/ ExtractFails(1)
    \/ FirstTry(1)
    \/ FirstTryFails(1)
    \/ Sleep(1)
    \/ Resubmit(1)
    \/ ResubmitFails(1)
    \/ ExtractMustKeep(2)
    \/ ExtractFails(2)
    \/ FirstTry(2)
    \/ FirstTryFails(2)
    \/ Sleep(2)
    \/ Resubmit(2)
    \/ ResubmitFails(2)

SpecTwo == InitTwo /\ [][NextTwo]_vars

\* ------------------------------- two invocations that differ in one answer
\* Two invocations with the same arguments, to which the service gives
\* different texts at the fact-extraction call and, call for call, the same
\* response at the rewrite calls.

\* what the service may answer to the fact-extraction prompt here: also a
\* text that has the facts of an original
PairMustKeepResponses ==
    MustKeepResponses \cup {WithText(TextThreeEntities), WithText(TextOneNumber)}

InitPair ==
    /\ \E mr \in 0..MaxRetriesBound, o \in Originals :
          sess = [i \in {1, 2} |-> NewSession(mr, o)]
    /\ call = NoCall
    /\ sheet = NoSheet

PairExtract ==
    /\ sess[1].pc = "start" /\ sess[2].pc = "start"
    /\ \E r1 \in MustKeepResponses, r2 \in PairMustKeepResponses :
          /\ r1 # r2
          /\ sess' = [i \in {1, 2} |-> ExtractStep(sess[i], IF i = 1 THEN r1 ELSE r2)]
    /\ UNCHANGED <<call, sheet>>

PairFirstTry ==
    /\ sess[1].pc = "generate" /\ sess[2].pc = "generate"
    /\ \E resp \in Responses :
          sess' = [i \in {1, 2} |-> FirstTryStep(sess[i], resp)]
    /\ UNCHANGED <<call, sheet>>

PairSleep ==
    /\ sess[1].pc = "sleep" /\ sess[2].pc = "sleep"
    /\ sess' = [i \in {1, 2} |-> SleepStep(sess[i])]
    /\ UNCHANGED <<call, sheet>>

PairResubmit ==
    /\ sess[1].pc = "resubmit" /\ sess[2].pc = "resubmit"
    /\ \E resp \in Responses :
          sess' = [i \in {1, 2} |-> ResubmitStep(sess[i], resp)]
    /\ UNCHANGED <<call, sheet>>

NextPair == PairExtract \/ PairFirstTry \/ PairSleep \/ PairResubmit

SpecPair == InitPair /\ [][NextPair]_vars

\* ------------------------------------------- coverage_score on its own
\* The baseline lists: a head of up to MaxHeadLen items followed by up to
\* MaxRepeat copies of one item, so that lists longer than the cap of 100 on
\* the denominator are among them.

MaxHeadLen == 2

MaxRepeat == 101

\* the empty string, a string that occurs in the longer text, one that does not
CovItems == {<<>>, <<"a">>, <<"c">>}

CovTexts == {<<>>, <<"b", "a">>}

Repeat(x, n) == [k \in 1..n |-> x]

CovBaselines ==
    {h \o Repeat(f, n) :
        h \in UNION {[1..m -> CovItems] : m \in 0..MaxHeadLen},
        f \in CovItems,
        n \in 0..MaxRepeat}

InitCov ==
    /\ sess = <<>>
    /\ sheet = NoSheet
    /\ \E b \in CovBaselines, t \in CovTexts :
          call = [fn |-> "coverage_score", baseline |-> b, text |-> t,
                  done |-> FALSE, result |-> Rat(0, 1)]

ApplyCoverage ==
    /\ call.fn = "coverage_score"
    /\ ~call.done
    /\ call' = [call EXCEPT !.done = TRUE,
                            !.result = coverage_score(call.baseline, call.text)]
    /\ UNCHANGED <<sess, sheet>>

NextCov == ApplyCoverage

SpecCov == InitCov /\ [][NextCov]_vars

\* ------------------------------------------ validate_rewrite(X, X) on its own
\* The texts: up to MaxPerCategory entity words, number words, URLs and dates,
\* each followed by a space, then nothing or one more space.

MaxPerCategory == 5

LetterSeq == <<"a", "b", "c", "d", "e", "f", "g", "k">>

DigitSeq == <<"1", "2", "3", "4", "5", "6", "7", "8">>

EntityWord(k) == <<LetterSeq[k], "z">>

NumberWord(k) == <<"9", DigitSeq[k]>>

UrlWord(k) == <<"h", "t", "t", "p", ":", "/", "/", LetterSeq[k]>>

DateWord(k) == <<"2", "0", "2", "4", "-", "1", "-", DigitSeq[k]>>

Word(kind, k) ==
    CASE kind = "entity" -> EntityWord(k)
      [] kind = "number" -> NumberWord(k)
      [] kind = "url"    -> UrlWord(k)
      [] kind = "date"   -> DateWord(k)

\* the first n words of a kind, each followed by a space
WordsOf(n, kind) ==
    LET C[k \in 0..n] == IF k = 0 THEN <<>> ELSE C[k - 1] \o Word(kind, k) \o <<" ">>
    IN  C[n]

TextOf(ne, nn, nu, nd, pad) ==
    WordsOf(ne, "entity") \o WordsOf(nn, "number") \o WordsOf(nu, "url")
        \o WordsOf(nd, "date") \o pad

ValTexts ==
    {TextOf(ne, nn, nu, nd, pad) :
        ne \in 0..MaxPerCategory, nn \in 0..MaxPerCategory,
        nu \in 0..MaxPerCategory, nd \in 0..MaxPerCategory,
        pad \in {<<>>, <<" ">>}}

InitVal ==
    /\ sess = <<>>
    /\ sheet = NoSheet
    /\ \E x \in ValTexts :
          call = [fn |-> "validate_rewrite", original |-> x, rewritten |-> x,
                  done |-> FALSE, result |-> <<>>]

ApplyValidate ==
    /\ call.fn = "validate_rewrite"
    /\ ~call.done
    /\ call' = [call EXCEPT !.done = TRUE,
                            !.result = validate_rewrite(call.original, call.rewritten)]
    /\ UNCHANGED <<sess, sheet>>

NextVal == ApplyValidate

SpecVal == InitVal /\ [][NextVal]_vars

\* ------------------------------------- originals with one to a few facts
\* One invocation on an original with 1 to MaxFloorItems facts of one
\* category, to which the service answers with no text or with the original
\* itself, the candidate that keeps every fact.

MaxFloorItems == 5

\* n entities; n numbers; n URLs beside three entities; n dates
FloorOriginals ==
    UNION {{TextOf(n, 0, 0, 0, <<>>), TextOf(0, n, 0, 0, <<>>),
            TextOf(3, 0, n, 0, <<>>), TextOf(0, 0, 0, n, <<>>)} : n \in 1..MaxFloorItems}

InitFloor ==
    /\ \E mr \in 0..MaxRetriesBound, o \in FloorOriginals :
          sess = [i \in {1} |-> NewSession(mr, o)]
    /\ call = NoCall
    /\ sheet = NoSheet

FirstTryEcho(i) ==
    /\ sess[i].pc = "generate"
    /\ \E resp \in {NoText, WithText(sess[i].original)} :
          sess' = [sess EXCEPT ![i] = FirstTryStep(sess[i], resp)]
    /\ UNCHANGED <<call, sheet>>

ResubmitEcho(i) ==
    /\ sess[i].pc = "resubmit"
    /\ \E resp \in {NoText, WithText(sess[i].original)} :
          sess' = [sess EXCEPT ![i] = ResubmitStep(sess[i], resp)]
    /\ UNCHANGED <<call, sheet>>

NextFloor ==
    \/ ExtractMustKeep(1)
    \/ ExtractFails(1)
    \/ FirstTryEcho(1)
    \/ FirstTryFails(1)
    \/ Sleep(1)
    \/ ResubmitEcho(1)
    \/ ResubmitFails(1)

SpecFloor == InitFloor /\ [][NextFloor]_vars

\* ------------------------------------------ extract_key_facts on its own
\* The texts: n distinct words of one kind, each followed by a space, with n
\* up to MaxSmallCount or from one under the kind's cap to MaxOverCap over
\* it; in front of them, or not, the second and the first word once more.

MaxSmallCount == 4

MaxOverCap == 1

AlphaSeq ==
    <<"a", "b", "c", "d", "e", "f", "g", "h", "i", "j", "k", "l", "m",
      "n", "o", "p", "q", "r", "s", "t", "u", "v", "w", "x", "y", "z">>

\* the decimal numeral of k, 0 <= k < 1000
Numeral(k) ==
    LET D == <<"0", "1", "2", "3", "4", "5", "6", "7", "8", "9">>
        h == k \div 100
        t == (k \div 10) % 10
    IN  (IF h > 0 THEN <<D[h + 1]>> ELSE <<>>)
            \o (IF h > 0 \/ t > 0 THEN <<D[t + 1]>> ELSE <<>>)
            \o <<D[(k % 10) + 1]>>

\* the k-th word of two letters, 1 <= k <= 676
TwoLetters(k) == <<AlphaSeq[((k - 1) \div 26) + 1], AlphaSeq[((k - 1) % 26) + 1]>>

\* the k-th fact of a kind: a URL, a number, a date, an entity
FactWord(kind, k) ==
    CASE kind = "urls"     -> <<"h", "t", "t", "p", "s", ":", "/", "/">> \o TwoLetters(k)
      [] kind = "numbers"  -> Numeral(k)
      [] kind = "dates"    -> <<"2", "0", "2", "4", "/">> \o Numeral(((k - 1) \div 28) + 1)
                                  \o <<"/">> \o Numeral(((k - 1) % 28) + 1)
      [] kind = "entities" -> TwoLetters(k)

FactKinds == {"urls", "numbers", "dates", "entities"}

CapOf(kind) ==
    CASE kind = "urls"     -> UrlCap
      [] kind = "numbers"  -> NumCap
      [] kind = "dates"    -> DateCap
      [] kind = "entities" -> EntCap

FactCounts(kind) == (0..MaxSmallCount) \cup ((CapOf(kind) - 1)..(CapOf(kind) + MaxOverCap))

RECURSIVE FactWords(_, _, _)
\* the words lo..hi of a kind, each followed by a space
FactWords(kind, lo, hi) ==
    IF hi < lo THEN <<>>
    ELSE IF lo = hi THEN FactWord(kind, lo) \o <<" ">>
    ELSE FactWords(kind, lo, (lo + hi) \div 2) \o FactWords(kind, ((lo + hi) \div 2) + 1, hi)

FactText(kind, n, again) ==
    (IF again /\ n >= 2
     THEN FactWord(kind, 2) \o <<" ">> \o FactWord(kind, 1) \o <<" ">>
     ELSE <<>>) \o FactWords(kind, 1, n)

InitExt ==
    /\ sess = <<>>
    /\ sheet = NoSheet
    /\ \E kind \in FactKinds, again \in BOOLEAN :
          \E n \in FactCounts(kind) :
             call = [fn |-> "extract_key_facts", kind |-> kind, count |-> n,
                     again |-> again, text |-> FactText(kind, n, again),
                     done |-> FALSE, result |-> <<>>]

ApplyExtract ==
    /\ call.fn = "extract_key_facts"
    /\ ~call.done
    /\ call' = [call EXCEPT !.done = TRUE, !.result = extract_key_facts(call.text)]
    /\ UNCHANGED <<sess, sheet>>

NextExt == ApplyExtract

SpecExt == InitExt /\ [][NextExt]_vars

\* ------------------------------- is_pass and the feedback on their own
\* The score vectors: every category score and the length ratio in tenths,
\* on both sides of each threshold.  is_pass is applied with the default
\* thresholds or with thresholds of the caller; when it fails under the
\* defaults, safe_rewrite composes the feedback from the same vector.

CategoryTenths == {0, 5, 6, 7, 8, 10}

LengthTenths == {3, 6, 10}

ScoreVectors ==
    {[url_keep |-> Rat(u, 10), num_keep |-> Rat(n, 10), date_keep |-> Rat(d, 10),
      ent_keep |-> Rat(e, 10), length_ratio |-> Rat(l, 10)] :
        u \in CategoryTenths, n \in CategoryTenths, d \in CategoryTenths,
        e \in CategoryTenths, l \in LengthTenths}

\* thresholds a caller passes in place of the defaults
CallerThresholds ==
    {[url_min |-> Rat(5, 10), num_min |-> Rat(5, 10), date_min |-> Rat(5, 10),
      ent_min |-> Rat(5, 10), len_min |-> Rat(1, 1)]}

NoFeedback == [weak |-> <<"none">>, percent |-> 0]

InitScore ==
    /\ sess = <<>>
    /\ sheet = NoSheet
    /\ \E v \in ScoreVectors, th \in CallerThresholds, dflt \in BOOLEAN :
          call = [fn |-> "is_pass", scores |-> v, thresholds |-> th, defaults |-> dflt,
                  done |-> FALSE, result |-> FALSE,
                  composed |-> FALSE, feedback |-> NoFeedback]

ApplyIsPass ==
    /\ call.fn = "is_pass"
    /\ ~call.done
    /\ call' = [call EXCEPT
                  !.done = TRUE,
                  !.result = IF call.defaults THEN IsPassDefault(call.scores)
                             ELSE is_pass(call.scores, call.thresholds.url_min,
                                          call.thresholds.num_min, call.thresholds.date_min,
                                          call.thresholds.ent_min, call.thresholds.len_min)]
    /\ UNCHANGED <<sess, sheet>>

\* lines 179-187: after is_pass(last_scores) failed
ComposeFeedback ==
    /\ call.fn = "is_pass"
    /\ call.done /\ call.defaults /\ ~call.result
    /\ ~call.composed
    /\ call' = [call EXCEPT !.composed = TRUE, !.feedback = Feedback(call.scores)]
    /\ UNCHANGED <<sess, sheet>>

NextScore == ApplyIsPass \/ ComposeFeedback

SpecScore == InitScore /\ [][NextScore]_vars

\* ----------------------------------------------------- the history store
\* SpreadsheetLogger: save_analysis appends a row of seven cells to the
\* history sheet, load_history reads the sheet back.  A timestamp is the
\* number of the append, so a later row has a later timestamp.

\* the most rows save_analysis appends
MaxRows == 4

\* the largest limit load_history is called with
MaxLimit == 2

AnalysisCap == 5000

DefaultLimit == 20

Sites == {"site_a", "site_b"}

\* site_name=None
NoSite == "None"

HeaderRow == <<"timestamp", "site", "user", "keyword", "url", "mode", "analysis">>

\* analysis[:5000] if len(analysis) > 5000 else analysis
AnalysisShort(analysis) ==
    IF Len(analysis) > AnalysisCap THEN SubSeq(analysis, 1, AnalysisCap) ELSE analysis

\* new_row of save_analysis
NewRow(timestamp, site_name, keyword, url, analysis, mode) ==
    <<timestamp, site_name, "user", keyword, url, mode, AnalysisShort(analysis)>>

\* data of load_history
RowData(row) ==
    [timestamp |-> row[1], site |-> row[2], user |-> row[3], keyword |-> row[4],
     url |-> row[5], mode |-> row[6], analysis |-> row[7]]

\* load_history: the rows after the header, the last first, those of seven
\* cells or more and of the site; the loop leaves once a row was added and
\* the history has limit entries or more
load_history(values, site_name, limit) ==
    LET n == Len(values) - 1
        H[k \in 0..n] ==
            IF k = 0 THEN [history |-> <<>>, stopped |-> FALSE]
            ELSE The({IF h.stopped THEN h
                      ELSE IF Len(row) >= 7
                              /\ (site_name = NoSite \/ RowData(row).site = site_name)
                           THEN [history |-> Append(h.history, RowData(row)),
                                 stopped |-> Len(h.history) + 1 >= limit]
                           ELSE h
                      : <<h, row>> \in {<<H[k - 1], values[Len(values) - k + 1]>>}})
    IN  IF Len(values) <= 1 THEN <<>> ELSE H[n].history

\* after SpreadsheetLogger(config) on a spreadsheet without the sheet
InitHist ==
    /\ sess = <<>>
    /\ call = NoCall
    /\ sheet = <<HeaderRow>>

SaveAnalysis ==
    /\ Len(sheet) <= MaxRows
    /\ \E site \in Sites :
          sheet' = Append(sheet, NewRow(Len(sheet), site, Keyword, <<"u">>, <<"o", "k">>,
                                        "mode"))
    /\ UNCHANGED <<sess, call>>

LoadHistory ==
    /\ \E site_name \in Sites \cup {NoSite}, limit \in (0..MaxLimit) \cup {DefaultLimit} :
          call' = [fn |-> "load_history", values |-> sheet, site_name |-> site_name,
                   limit |-> limit, result |-> load_history(sheet, site_name, limit)]
    /\ UNCHANGED <<sess, sheet>>

NextHist == SaveAnalysis \/ LoadHistory

SpecHist == InitHist /\ [][NextHist]_vars

\* ------------------------------------------------- what a session has done

\* the positions in the trace of the generate_content calls of some kinds
GenCalls(s, kinds) ==
    {k \in 1..Len(s.trace) :
        s.trace[k].op = "generate_content" /\ s.trace[k].kind \in kinds}

ExtractionCalls(s) == GenCalls(s, {"extract"})

RewriteCalls(s) == GenCalls(s, {"first_try", "feedback"})

FailedCalls(s) ==
    {k \in GenCalls(s, {"extract", "first_try", "feedback"}) : ~s.trace[k].ok}

BaselineExtractions(s) ==
    {k \in 1..Len(s.trace) : s.trace[k].op = "extract_key_facts"}

\* the candidates, by their place in call order, that satisfy is_pass
Passing(s) == {j \in 1..Len(s.candidates) : IsPassDefault(s.candidates[j].scores)}

LastCandidate(s) == s.candidates[Len(s.candidates)]

\* ---------------------------------------------------------------- claims

\* C1: a session makes at most one fact-extraction call and at most
\* 2*(max_retries+1) rewrite calls, every rewrite call comes after the
\* fact-extraction call, and a session that returned made exactly one
\* fact-extraction call and at least one rewrite call.
C1_CallBounds ==
    \A i \in DOMAIN sess :
        LET s == sess[i]
        IN  /\ Cardinality(ExtractionCalls(s)) <= 1
            /\ Cardinality(RewriteCalls(s)) <= 2 * (s.max_retries + 1)
            /\ \A k \in RewriteCalls(s) : \E j \in ExtractionCalls(s) : j < k
            /\ s.pc = "returned" =>
                  /\ Cardinality(ExtractionCalls(s)) = 1
                  /\ Cardinality(RewriteCalls(s)) >= 1

\* a session with max_retries = 2 that returned after all 6 rewrite calls
C1_Witness ==
    \E i \in DOMAIN sess :
        /\ sess[i].pc = "returned"
        /\ sess[i].max_retries = 2
        /\ Cardinality(RewriteCalls(sess[i])) = 6

\* C2 (as claimed): the rewrite calls made beyond the first one number at
\* most max_retries.
C2_ExtraAttemptsWithinBudget ==
    \A i \in DOMAIN sess :
        Cardinality(RewriteCalls(sess[i])) - 1 <= sess[i].max_retries

\* C3: a candidate that satisfies is_pass is the last one scored, the session
\* has returned it with its score vector and the must-keep structure, and no
\* generation call and no pause follows the call that produced it.
C3_ReturnsFirstPassing ==
    \A i \in DOMAIN sess :
        LET s == sess[i]
        IN  \A j \in Passing(s) :
               /\ j = Len(s.candidates)
               /\ Passing(s) = {j}
               /\ s.pc = "returned"
               /\ s.result = <<s.candidates[j].text, s.candidates[j].scores,
                               s.must_keep_json>>
               /\ Cardinality({k \in RewriteCalls(s) : s.trace[k].ok}) = j
               /\ \A k \in 1..Len(s.trace) :
                     s.trace[k].op \in {"generate_content", "sleep"} =>
                        \E r \in RewriteCalls(s) : k <= r /\ s.trace[r].ok

\* a session that returned its third candidate, the first to pass
C3_Witness ==
    \E i \in DOMAIN sess :
        /\ sess[i].pc = "returned"
        /\ Len(sess[i].candidates) = 3
        /\ Passing(sess[i]) = {3}

C5_AlwaysReturns ==
    /\ [](\A i \in DOMAIN sess :
             sess[i].pc = "raised" => FailedCalls(sess[i]) # {})
    /\ ([](\A i \in DOMAIN sess : FailedCalls(sess[i]) = {}))
          => <>(\A i \in DOMAIN sess : sess[i].pc = "returned" /\ Len(sess[i].result) = 3)

\* an exhausted session that returned an empty text scoring 0 on entities and
\* on length
C5_Witness ==
    \E i \in DOMAIN sess :
        /\ sess[i].pc = "returned"
        /\ Passing(sess[i]) = {}
        /\ sess[i].result[1] = <<>>
        /\ sess[i].result[2].ent_keep.num = 0
        /\ sess[i].result[2].length_ratio.num = 0

\* C6: a failed generation call is the last thing its session did: the
\* session is in the error state and has no result; and the error state is
\* entered in no other way.
C6_FailurePropagates ==
    \A i \in DOMAIN sess :
        LET s == sess[i]
        IN  /\ FailedCalls(s) # {} =>
                  /\ FailedCalls(s) = {Len(s.trace)}
                  /\ s.pc = "raised"
                  /\ s.result = <<>>
            /\ s.pc = "raised" => FailedCalls(s) # {}

\* a session whose feedback resubmission failed
C6_Witness ==
    \E i \in DOMAIN sess :
        /\ sess[i].pc = "raised"
        /\ sess[i].trace[Len(sess[i].trace)].kind = "feedback"
        /\ Len(sess[i].candidates) = 3

\* C7 (as claimed): the baseline of the original is extracted at most once,
\* and exactly once in a session that returned.
C7_BaselineExtractedOnce ==
    \A i \in DOMAIN sess :
        /\ Cardinality(BaselineExtractions(sess[i])) <= 1
        /\ sess[i].pc = "returned" => Cardinality(BaselineExtractions(sess[i])) = 1

\* C7 (amended): the baseline is extracted once per scoring pass, right after
\* the rewrite call whose text is scored and always from the original text,
\* so between 1 and 2*(max_retries+1) times in a session that returned; every
\* candidate is scored against the baseline of the original.
C7_BaselineExtractedPerScoring ==
    \A i \in DOMAIN sess :
        LET s == sess[i]
        IN  /\ Cardinality(BaselineExtractions(s)) = Len(s.candidates)
            /\ Cardinality(BaselineExtractions(s)) <= 2 * (s.max_retries + 1)
            /\ s.pc = "returned" => Cardinality(BaselineExtractions(s)) >= 1
            /\ \A k \in BaselineExtractions(s) :
                  /\ s.trace[k].arg = s.original
                  /\ k - 1 \in RewriteCalls(s)
                  /\ s.trace[k - 1].ok
            /\ \A k \in RewriteCalls(s) :
                  s.trace[k].ok => k + 1 \in BaselineExtractions(s)
            /\ \A j \in 1..Len(s.candidates) :
                  s.candidates[j].scores =
                      validate_rewrite(s.original, s.candidates[j].text)

\* a session that returned after four scoring passes
C7_Witness ==
    \E i \in DOMAIN sess :
        /\ sess[i].pc = "returned"
        /\ Cardinality(BaselineExtractions(sess[i])) = 4

\* the score validate_rewrite(X, X) gives a category whose baseline has n items
IdentityScore(n) == IF n = 0 \/ n >= 5 THEN Rat(1, 1) ELSE Rat(n, 5)

\* C8 (as claimed): validate_rewrite(X, X) scores 1.0 in all four categories
\* and in length_ratio.
C8_IdentityScoresOne ==
    call.done =>
        /\ RatEq(call.result.url_keep, Rat(1, 1))
        /\ RatEq(call.result.num_keep, Rat(1, 1))
        /\ RatEq(call.result.date_keep, Rat(1, 1))
        /\ RatEq(call.result.ent_keep, Rat(1, 1))
        /\ RatEq(call.result.length_ratio, Rat(1, 1))

\* C8 (amended): validate_rewrite(X, X) scores a category 1.0 when the
\* baseline of X has no item or at least 5 items in it and n/5 when it has n
\* items, 1 <= n <= 4; length_ratio is 1.0 when X has a character that is no
\* whitespace and 0.0 when it has none.
C8_IdentityScores ==
    call.done =>
        LET base == extract_key_facts(call.original)
            x    == call.original
        IN  /\ call.rewritten = x
            /\ RatEq(call.result.url_keep, IdentityScore(Len(base.urls)))
            /\ RatEq(call.result.num_keep, IdentityScore(Len(base.numbers)))
            /\ RatEq(call.result.date_keep, IdentityScore(Len(base.dates)))
            /\ RatEq(call.result.ent_keep, IdentityScore(Len(base.entities)))
            /\ RatEq(call.result.length_ratio,
                     IF \E k \in 1..Len(x) : x[k] \notin Whitespace
                     THEN Rat(1, 1) ELSE Rat(0, 1))

\* X has two URLs and five entities or more: url_keep is 2/5, ent_keep 1.0
C8_Witness ==
    /\ call.done
    /\ Len(extract_key_facts(call.original).urls) = 2
    /\ Len(extract_key_facts(call.original).entities) >= 5
    /\ call.result.url_keep = Rat(2, 5)
    /\ RatEq(call.result.ent_keep, Rat(1, 1))

\* C9 (as claimed): coverage_score returns a value in [0, 1].
C9_ScoreInUnitInterval ==
    call.done =>
        /\ call.result.num >= 0
        /\ call.result.num <= call.result.den

\* max(5, min(n, 100)), written out
ClaimedDenominator(n) == IF n < 5 THEN 5 ELSE IF n > 100 THEN 100 ELSE n

\* C10 (as claimed): coverage_score(B, text) is 1.0 for the empty B and
\* otherwise the number of items of B that are substrings of text, over
\* max(5, min(len(B), 100)).
C10_CountsSubstringItems ==
    call.done =>
        LET B == call.baseline
        IN  IF Len(B) = 0 THEN call.result = Rat(1, 1)
            ELSE call.result =
                    Rat(Cardinality({k \in 1..Len(B) : Contains(B[k], call.text)}),
                        ClaimedDenominator(Len(B)))

\* C10 (amended): coverage_score(B, text) is 1.0 for the empty B and
\* otherwise the number of non-empty items of B that are substrings of text,
\* over max(5, min(len(B), 100)).
C10_CountsNonEmptySubstringItems ==
    call.done =>
        LET B == call.baseline
        IN  IF Len(B) = 0 THEN call.result = Rat(1, 1)
            ELSE call.result =
                    Rat(Cardinality({k \in 1..Len(B) :
                                        /\ Len(B[k]) > 0
                                        /\ Contains(B[k], call.text)}),
                        ClaimedDenominator(Len(B)))

\* a list of more than 100 items with an empty item, an item of the text and
\* an item not in the text
C10_Witness ==
    /\ call.done
    /\ Len(call.baseline) > 100
    /\ \E k \in 1..Len(call.baseline) : call.baseline[k] = <<>>
    /\ \E k \in 1..Len(call.baseline) : call.baseline[k] = <<"c">>
    /\ call.result.num > 0
    /\ call.result.den = 100

\* C11: is_pass is true exactly when url_keep >= url_min, num_keep >= num_min,
\* date_keep >= date_min, ent_keep >= ent_min and length_ratio >= len_min all
\* hold, the thresholds being 0.8, 0.7, 0.7, 0.6, 0.6 when the caller gives
\* none; a vector with length_ratio below 0.6 fails under the defaults.
C11_AllFiveConditions ==
    (call.fn = "is_pass" /\ call.done) =>
        LET v  == call.scores
            th == IF call.defaults
                  THEN [url_min |-> Rat(8, 10), num_min |-> Rat(7, 10),
                        date_min |-> Rat(7, 10), ent_min |-> Rat(6, 10),
                        len_min |-> Rat(6, 10)]
                  ELSE call.thresholds
        IN  /\ call.result =
                  (/\ v.url_keep.num * th.url_min.den >= th.url_min.num * v.url_keep.den
                   /\ v.num_keep.num * th.num_min.den >= th.num_min.num * v.num_keep.den
                   /\ v.date_keep.num * th.date_min.den >= th.date_min.num * v.date_keep.den
                   /\ v.ent_keep.num * th.ent_min.den >= th.ent_min.num * v.ent_keep.den
                   /\ v.length_ratio.num * th.len_min.den
                         >= th.len_min.num * v.length_ratio.den)
            /\ (call.defaults /\ 10 * v.length_ratio.num < 6 * v.length_ratio.den)
                  => ~call.result

\* all four categories at 1.0 and length_ratio 0.3: fails under the defaults
C11_Witness ==
    /\ call.fn = "is_pass" /\ call.done /\ call.defaults
    /\ call.scores.url_keep = Rat(10, 10)
    /\ call.scores.num_keep = Rat(10, 10)
    /\ call.scores.date_keep = Rat(10, 10)
    /\ call.scores.ent_keep = Rat(10, 10)
    /\ call.scores.length_ratio = Rat(3, 10)
    /\ ~call.result

\* C12: the feedback names a category among url_keep, num_keep, date_keep,
\* ent_keep exactly when its score is below 0.8, each once, and never names
\* length_ratio.
C12_FeedbackNamesWeak ==
    (call.fn = "is_pass" /\ call.composed) =>
        LET weak == call.feedback.weak
            v    == call.scores
        IN  /\ \A k \in {"url_keep", "num_keep", "date_keep", "ent_keep"} :
                  (\E j \in 1..Len(weak) : weak[j] = k) <=> (10 * v[k].num < 8 * v[k].den)
            /\ \A j \in 1..Len(weak) :
                  weak[j] \in {"url_keep", "num_keep", "date_keep", "ent_keep"}
            /\ \A j, l \in 1..Len(weak) : weak[j] = weak[l] => j = l

\* num_keep is 0.5, the other categories are at 0.8 or more, length_ratio is
\* below 0.8: the feedback names num_keep alone
C12_Witness ==
    /\ call.fn = "is_pass" /\ call.composed
    /\ call.scores.num_keep = Rat(5, 10)
    /\ call.scores.url_keep = Rat(8, 10)
    /\ call.scores.date_keep = Rat(10, 10)
    /\ call.scores.ent_keep = Rat(8, 10)
    /\ call.scores.length_ratio = Rat(6, 10)
    /\ call.feedback.weak = <<"num_keep">>

\* C13: the text the fact-extraction call returned, a JSON object or not, is
\* the must-keep structure of the session as it stands: every rewrite prompt
\* embeds it and every return gives it as the third element of the triple.
C13_MustKeepThreadedUnchanged ==
    \A i \in DOMAIN sess :
        LET s == sess[i]
        IN  /\ \A k \in ExtractionCalls(s) :
                  s.trace[k].ok => s.must_keep_json = s.keep_resp.text
            /\ \A k \in RewriteCalls(s) : s.trace[k].arg[3] = s.keep_resp.text
            /\ s.pc = "returned" => s.result[3] = s.keep_resp.text

\* an exhausted session whose fact-extraction call returned no JSON
C13_Witness ==
    \E i \in DOMAIN sess :
        /\ sess[i].pc = "returned"
        /\ sess[i].keep_resp.text = <<"o", "o", "p", "s">>
        /\ Passing(sess[i]) = {}
        /\ Len(sess[i].candidates) = 4
        /\ sess[i].result[3] = <<"o", "o", "p", "s">>

\* the states an invocation that runs alone moves to from s in one step
SoloSteps(s) ==
    LET p == prompt_rewrite_with_constraints(s.keyword, s.original, s.ai_suggestions,
                                             s.must_keep_json, s.style_guidelines)
    IN  CASE s.pc = "start" ->
                {ExtractStep(s, r) : r \in MustKeepResponses}
                    \cup {RaiseStep(s, "extract", prompt_extract_must_keep(s.original))}
          [] s.pc = "generate" ->
                {FirstTryStep(s, r) : r \in Responses} \cup {RaiseStep(s, "first_try", p)}
          [] s.pc = "sleep" -> {SleepStep(s)}
          [] s.pc = "resubmit" ->
                {ResubmitStep(s, r) : r \in Responses}
                    \cup {RaiseStep(s, "feedback", s.retry_prompt)}
          [] OTHER -> {}

\* C14: with two invocations interleaved, a step of one leaves the other as
\* it was and takes the one to a state it moves to when it runs alone, so each
\* makes the calls and returns the triple of its run alone; the triple is made
\* of the invocation's own last candidate, that candidate's scores against
\* its own original, and its own must-keep text.
C14_InvocationsIndependent ==
    [][\A i \in DOMAIN sess :
          sess'[i] # sess[i] =>
             /\ \A j \in DOMAIN sess \ {i} : sess'[j] = sess[j]
             /\ sess'[i] \in SoloSteps(sess[i])
             /\ sess'[i].pc = "returned" =>
                   sess'[i].result =
                       <<LastCandidate(sess'[i]).text,
                         validate_rewrite(sess'[i].original, LastCandidate(sess'[i]).text),
                         sess'[i].keep_resp.text>>]_vars

\* both invocations returned after two candidates each, on different
\* originals, with different must-keep texts and different triples
C14_Witness ==
    /\ DOMAIN sess = {1, 2}
    /\ sess[1].pc = "returned" /\ sess[2].pc = "returned"
    /\ sess[1].original # sess[2].original
    /\ sess[1].must_keep_json # sess[2].must_keep_json
    /\ sess[1].result # sess[2].result
    /\ Len(sess[1].candidates) = 2 /\ Len(sess[2].candidates) = 2

\* what C15 says of one category: r is the category of the result, m the
\* matches of the category's expression in the text, in text order
FirstDistinct(r, m, cap) ==
    The({/\ Len(r) = MinInt(cap, Cardinality({m[j] : j \in 1..Len(m)}))
         /\ \A i \in 1..Len(r) : fp[i] > 0
         /\ \A i \in 1..(Len(r) - 1) : fp[i] < fp[i + 1]
         /\ \A j \in 1..Len(m) :
               (\A i \in 1..Len(r) : r[i] # m[j]) => (Len(r) > 0 /\ j > fp[Len(r)])
         : fp \in {[i \in 1..Len(r) |->
                      IF \E j \in 1..Len(m) : m[j] = r[i]
                      THEN CHOOSE j \in 1..Len(m) :
                              m[j] = r[i] /\ \A l \in 1..(j - 1) : m[l] # r[i]
                      ELSE 0]}})

\* C15: each category of the result of extract_key_facts has the category's
\* matches in the text, each once, in the order of their first occurrences,
\* as many as there are distinct matches or as the cap (50 urls, 100 numbers,
\* 50 dates, 100 entities) when there are more, the ones kept being those
\* that occur first; the empty text gives four empty lists.
C15_FirstDistinctUpToCap ==
    (call.fn = "extract_key_facts" /\ call.done) =>
        /\ FirstDistinct(call.result.urls, FindAll("URL_RE", call.text), 50)
        /\ FirstDistinct(call.result.numbers, FindAll("NUM_RE", call.text), 100)
        /\ FirstDistinct(call.result.dates, FindAll("DATE_RE", call.text), 50)
        /\ FirstDistinct(call.result.entities, FindAll("NE_RE", call.text), 100)
        /\ call.text = <<>> =>
              call.result = [urls |-> <<>>, numbers |-> <<>>, dates |-> <<>>,
                             entities |-> <<>>]

\* a text of 51 distinct URLs, the second and the first of them twice: the
\* result has the first 50 distinct ones, the second in front
C15_Witness ==
    /\ call.fn = "extract_key_facts" /\ call.done
    /\ call.kind = "urls" /\ call.count = 51 /\ call.again
    /\ Len(call.result.urls) = 50
    /\ call.result.urls[1] = FactWord("urls", 2)
    /\ call.result.urls[2] = FactWord("urls", 1)
    /\ call.result.urls[50] = FactWord("urls", 50)

\* the rows of the sheet that match a site, newest first
MatchingNewestFirst(values, site_name) ==
    LET n == Len(values) - 1
        M[k \in 0..n] ==
            IF k = 0 THEN <<>>
            ELSE IF site_name = NoSite \/ values[Len(values) - k + 1][2] = site_name
                 THEN Append(M[k - 1], RowData(values[Len(values) - k + 1]))
                 ELSE M[k - 1]
    IN  M[n]

\* C16 (as claimed): load_history(site_name, limit) returns at most limit
\* entries, all of the site when one is given, newest first, and they are the
\* most recently appended rows of the site.
C16_HistoryNewestFirstCapped ==
    call.fn = "load_history" =>
        LET r == call.result
            m == MatchingNewestFirst(call.values, call.site_name)
        IN  /\ Len(r) <= call.limit
            /\ \A j \in 1..Len(r) : call.site_name # NoSite => r[j].site = call.site_name
            /\ \A j \in 1..(Len(r) - 1) : r[j].timestamp > r[j + 1].timestamp
            /\ r = SubSeq(m, 1, MinInt(call.limit, Len(m)))

FirstTryCalls(s) == GenCalls(s, {"first_try"})

FeedbackCalls(s) == GenCalls(s, {"feedback"})

\* the first-try call of the outer attempt that the call at k belongs to
AttemptStart(s, k) == CHOOSE f \in FirstTryCalls(s) :
                         f <= k /\ \A g \in FirstTryCalls(s) : g <= k => g <= f

\* C17: the prompt of a feedback resubmission is the rewrite prompt of its
\* outer attempt followed by the feedback block composed from the scores of
\* that attempt's first candidate; the first-try prompt of every outer attempt
\* is the six-part rewrite prompt built from the arguments and the must-keep
\* text, with no feedback part, the same in every outer attempt.
C17_FeedbackAppendedToFreshPrompt ==
    \A i \in DOMAIN sess :
        LET s == sess[i]
        IN  /\ \A k \in FeedbackCalls(s) :
                  LET f == AttemptStart(s, k)
                      c == Cardinality({r \in RewriteCalls(s) : r <= f})
                  IN  /\ SubSeq(s.trace[k].arg, 1, Len(s.trace[f].arg)) = s.trace[f].arg
                      /\ Len(s.trace[k].arg) = Len(s.trace[f].arg) + 2
                      /\ s.trace[k].arg[Len(s.trace[f].arg) + 1] = "FEEDBACK"
                      /\ s.trace[k].arg[Len(s.trace[f].arg) + 2]
                            = Feedback(s.candidates[c].scores)
            /\ \A k \in FirstTryCalls(s) :
                  /\ Len(s.trace[k].arg) = 6
                  /\ s.trace[k].arg = <<"REWRITE_WITH_CONSTRAINTS", s.keyword,
                                        s.keep_resp.text, s.ai_suggestions,
                                        s.original, DefaultStyle>>
                  /\ \A g \in FirstTryCalls(s) : s.trace[g].arg = s.trace[k].arg

\* a session in its third outer attempt whose first two feedback blocks differ
C17_Witness ==
    \E i \in DOMAIN sess :
        /\ Cardinality(FirstTryCalls(sess[i])) = 3
        /\ Cardinality(FeedbackCalls(sess[i])) = 3
        /\ \E k, l \in FeedbackCalls(sess[i]) :
              sess[i].trace[k].arg[8] # sess[i].trace[l].arg[8]

SleepCalls(s) == {k \in 1..Len(s.trace) : s.trace[k].op = "sleep"}

\* C18: every pause is of the configured delay and comes right after the
\* scoring of a first-try candidate that failed is_pass; the call after it, if
\* any, is the feedback resubmission, and every feedback resubmission comes
\* right after a pause; so no pause comes before the fact-extraction call,
\* before a first-try call or after the last scoring, and the pauses number
\* as the feedback resubmissions (one more while the resubmission is still to
\* come), at most max_retries+1.
C18_OnePauseBeforeEachResubmission ==
    \A i \in DOMAIN sess :
        LET s == sess[i]
        IN  /\ \A k \in SleepCalls(s) :
                  /\ s.trace[k].arg = s.sleep_sec
                  /\ k >= 3
                  /\ s.trace[k - 1].op = "extract_key_facts"
                  /\ k - 2 \in FirstTryCalls(s)
                  /\ ~IsPassDefault(
                         s.candidates[Cardinality({r \in RewriteCalls(s) : r < k})].scores)
                  /\ k < Len(s.trace) => k + 1 \in FeedbackCalls(s)
                  /\ k = Len(s.trace) => s.pc = "resubmit"
            /\ \A k \in FeedbackCalls(s) : k - 1 \in SleepCalls(s)
            /\ \A k \in ExtractionCalls(s) \cup FirstTryCalls(s) : k - 1 \notin SleepCalls(s)
            /\ Cardinality(SleepCalls(s))
                  = Cardinality(FeedbackCalls(s)) + (IF s.pc = "resubmit" THEN 1 ELSE 0)
            /\ Cardinality(SleepCalls(s)) <= s.max_retries + 1
            /\ s.pc = "returned" =>
                  /\ Cardinality(SleepCalls(s)) = Cardinality(FeedbackCalls(s))
                  /\ s.trace[Len(s.trace) - 1].op = "extract_key_facts"

\* an exhausted session with max_retries = 2: three pauses, three resubmissions
C18_Witness ==
    \E i \in DOMAIN sess :
        /\ sess[i].pc = "returned"
        /\ sess[i].max_retries = 2
        /\ Cardinality(SleepCalls(sess[i])) = 3
        /\ Cardinality(FeedbackCalls(sess[i])) = 3

\* C19: two sessions with the same original and the same rewrite responses
\* whose fact-extraction responses differ stand at the same place, have
\* scored the same candidates with the same score vectors, each the scores of
\* the candidate against the original, have made the same number of calls,
\* and return the same text and score vector; they differ in the must-keep
\* text they carry and return.
C19_ScoresIgnoreMustKeep ==
    (DOMAIN sess = {1, 2} /\ sess[1].pc # "start") =>
        /\ sess[1].keep_resp # sess[2].keep_resp
        /\ sess[1].pc = sess[2].pc
        /\ sess[1].candidates = sess[2].candidates
        /\ \A j \in 1..Len(sess[1].candidates) :
              sess[1].candidates[j].scores
                 = validate_rewrite(sess[1].original, sess[1].candidates[j].text)
        /\ Len(sess[1].trace) = Len(sess[2].trace)
        /\ Cardinality(RewriteCalls(sess[1])) = Cardinality(RewriteCalls(sess[2]))
        /\ sess[1].pc = "returned" =>
              /\ sess[1].result[1] = sess[2].result[1]
              /\ sess[1].result[2] = sess[2].result[2]
              /\ sess[1].result[3] # sess[2].result[3]

\* the must-keep text of one session has the three entities of a candidate
\* that the original, with one number, has not, and the other's has none:
\* both returned the candidate with num_keep 0 and ent_keep 1.0
C19_Witness ==
    /\ DOMAIN sess = {1, 2}
    /\ sess[1].pc = "returned" /\ sess[2].pc = "returned"
    /\ sess[1].original = TextOneNumber
    /\ sess[1].must_keep_json = <<"{", "}">>
    /\ sess[2].must_keep_json = TextThreeEntities
    /\ sess[1].result[1] = TextThreeEntities
    /\ sess[2].result[2].num_keep = Rat(0, 5)
    /\ RatEq(sess[2].result[2].ent_keep, Rat(1, 1))

\* a baseline with a category that is not empty and has too few items to
\* reach its threshold over the floor of 5
TooFewItems(base) ==
    \/ Len(base.urls) \in 1..3
    \/ Len(base.numbers) \in 1..3
    \/ Len(base.dates) \in 1..3
    \/ Len(base.entities) \in 1..2

=============================================================================
